---- MODULE Spec2Model ----
(***************************************************************************)
(* Model of the sync_merkle crate: the trie differ of src/lib.rs, the      *)
(* data types of src/types.rs and the prefixed-hex JSON encoding of        *)
(* src/encoding.rs.                                                        *)
(*                                                                         *)
(* The crate is a library of pure functions over a read-only node store.   *)
(* A state is "the last call and what it returned": db is the store the    *)
(* host owns, call the operation and its arguments, ret its outcome,       *)
(* lookups the store reads the call made, wire the JSON text last          *)
(* produced by the serializer.  A Rust panic (unwrap on None,              *)
(* unimplemented!(), a str slice out of range) is the outcome "panic".     *)
(***************************************************************************)
EXTENDS Integers, Sequences, FiniteSets, TLC

VARIABLES db, call, ret, lookups, wire

vars == <<db, call, ret, lookups, wire>>

(***************************************************************************)
(* Bounds of the model.                                                    *)
(***************************************************************************)
\* longest prefix handed to diff_nodes
MaxPrefixLen == 1
\* longest partial path of a generated Leaf / Extension
MaxPartialLen == 1
\* longest nibble key, and longest value, of an EntryOwned handed to the
\* serializer
MaxKeyLen == 2
\* longest string handed to the Vec<u8> deserializer (in characters)
MaxStrLen == 4
\* most fields of a JSON object handed to the EntryOwned deserializer
MaxFields == 2

(***************************************************************************)
(* Option<T>, as a sequence of at most one element.                        *)
(***************************************************************************)
None == <<>>
Some(x) == <<x>>
IsSome(o) == Len(o) = 1
IsNone(o) == Len(o) = 0

\* sequences over S of length at most n
SeqUpTo(S, n) == UNION {[1..k -> S] : k \in 0..n}

(***************************************************************************)
(* Outcomes of a call.                                                     *)
(***************************************************************************)
Ok(v) == [status |-> "ok", val |-> v]
Err(kind) == [status |-> "err", kind |-> kind]
Panic == [status |-> "panic"]

(***************************************************************************)
(* trie_db::NibbleSlice, seen as the sequence of nibbles it iterates.      *)
(***************************************************************************)
\* NibbleSlice::new(bytes): two nibbles per byte, high nibble first
RECURSIVE NibbleSliceNew(_)
NibbleSliceNew(bytes) ==
    IF bytes = <<>> THEN <<>>
    ELSE <<Head(bytes) \div 16, Head(bytes) % 16>> \o NibbleSliceNew(Tail(bytes))

\* NibbleSlice::new_composed(a, b): a followed by b
NewComposed(a, b) == a \o b

(***************************************************************************)
(* trie_db::node::Node.  A Branch holds 16 optional child references       *)
(* (tuple index i is the slot of nibble i-1) and an optional value.        *)
(***************************************************************************)
Empty == <<"Empty">>
Leaf(partial, data) == <<"Leaf", partial, data>>
Extension(partial, child) == <<"Extension", partial, child>>
Branch(children, value) == <<"Branch", children, value>>

Kind(node) == node[1]

Slots == 1..16

\* a children array from a partial map nibble -> reference
ChildrenOf(m) == [i \in Slots |-> IF (i - 1) \in DOMAIN m THEN Some(m[i - 1]) ELSE None]

(***************************************************************************)
(* types.rs                                                                *)
(***************************************************************************)
Entry(key, value) == [key |-> key, value |-> value]

NodeDiff(added, removed) == [added_entries |-> added, removed_entries |-> removed]

\* impl Default for NodeDiff
NodeDiffDefault == NodeDiff(<<>>, <<>>)

\* NodeDiff::is_empty / NodeDiffOwned::is_empty
is_empty(diff) == diff.added_entries = <<>> /\ diff.removed_entries = <<>>

\* impl From<NibbleSlice> for NibbleOwned: collect the iterated nibbles
NibbleOwnedFrom(slice) == [i \in 1..Len(slice) |-> slice[i]]

\* impl From<Entry> for EntryOwned
EntryOwnedFrom(e) == [key |-> NibbleOwnedFrom(e.key), value |-> e.value]

\* impl From<NodeDiff> for NodeDiffOwned
NodeDiffOwnedFrom(d) ==
    [added_entries |-> [i \in 1..Len(d.added_entries) |-> EntryOwnedFrom(d.added_entries[i])],
     removed_entries |-> [i \in 1..Len(d.removed_entries) |-> EntryOwnedFrom(d.removed_entries[i])]]

(***************************************************************************)
(* lib.rs: diff_nodes and its helpers                                      *)
(***************************************************************************)
\* children.iter().filter_map(|n| *n): the present children, in slot order
RECURSIVE PresentFrom(_, _)
PresentFrom(children, i) ==
    IF i > 16 THEN <<>>
    ELSE (IF IsSome(children[i]) THEN <<children[i][1]>> ELSE <<>>)
         \o PresentFrom(children, i + 1)

\* the entries full_node_to_node_diff collects for one node
ChangedEntries(nibble, node) ==
    CASE Kind(node) = "Leaf" -> <<Entry(NewComposed(nibble, node[2]), node[3])>>
      [] Kind(node) = "Extension" -> <<Entry(NewComposed(nibble, node[2]), node[3])>>
      [] Kind(node) = "Branch" ->
            LET kids == PresentFrom(node[2], 1)
            IN  [i \in 1..Len(kids) |-> Entry(nibble, kids[i])]
                \o (IF IsSome(node[3]) THEN <<Entry(nibble, node[3][1])>> ELSE <<>>)
      [] Kind(node) = "Empty" -> <<>>

full_node_to_node_diff(nibble, node, added) ==
    IF added THEN NodeDiff(ChangedEntries(nibble, node), <<>>)
    ELSE NodeDiff(<<>>, ChangedEntries(nibble, node))

\* a plausible slip: the two entries of simple_to_simple! swapped
simple_to_simple_swapped(nibble, old_inner_nibble, old_data, new_inner_nibble, new_data) ==
    NodeDiff(<<Entry(NewComposed(nibble, old_inner_nibble), old_data)>>,
             <<Entry(NewComposed(nibble, new_inner_nibble), new_data)>>)

\* the simple_to_simple! macro
simple_to_simple(nibble, old_inner_nibble, old_data, new_inner_nibble, new_data) ==
    NodeDiff(<<Entry(NewComposed(nibble, new_inner_nibble), new_data)>>,
             <<Entry(NewComposed(nibble, old_inner_nibble), old_data)>>)

\* a plausible slip: the inline value pushed on removed_entries
branch_immediate_removed(nibble, value) ==
    NodeDiff(<<>>, <<Entry(nibble, value)>>)

\* the (Branch(_, None), Branch(_, Some(value))) arm
branch_immediate_added(nibble, value) ==
    NodeDiff(<<Entry(nibble, value)>>, <<>>)

SimpleKinds == {"Leaf", "Extension"}

diff_nodes(nibble, old_node, new_node) ==
    IF old_node = new_node THEN Ok(NodeDiffDefault)
    ELSE IF Kind(old_node) = "Empty" THEN Ok(full_node_to_node_diff(nibble, new_node, TRUE))
    ELSE IF Kind(new_node) = "Empty" THEN Ok(full_node_to_node_diff(nibble, old_node, FALSE))
    ELSE IF Kind(old_node) \in SimpleKinds /\ Kind(new_node) \in SimpleKinds
         THEN Ok(simple_to_simple(nibble, old_node[2], old_node[3], new_node[2], new_node[3]))
    ELSE IF /\ Kind(old_node) = "Branch" /\ Kind(new_node) = "Branch"
            /\ IsNone(old_node[3]) /\ IsSome(new_node[3])
         THEN Ok(branch_immediate_added(nibble, new_node[3][1]))
    ELSE Panic


(***************************************************************************)
(* The node store (HashDB) and the codec.  A stored value is either the    *)
(* encoding of a node or bytes the codec cannot decode.  Hashes and values *)
(* are byte sequences.                                                     *)
(***************************************************************************)
Encoded(node) == <<"enc", node>>
Junk == <<"junk">>

\* Codec::decode
Decode(bytes) == IF bytes[1] = "enc" THEN Some(bytes[2]) ELSE None

\* db.get(hash)
Get(store, hash) == IF hash \in DOMAIN store THEN Some(store[hash]) ELSE None

\* user values: "bar", "baz", "foo" cut to their first byte
Bar == <<98>>
Baz == <<99>>
Foo == <<102>>

\* content addresses
H_Empty == <<200>>
H_L1 == <<201>>
H_L2 == <<202>>
H_L3 == <<203>>
H_BrOld == <<204>>
H_BrNew == <<205>>
H_BrChg == <<206>>
H_BrMore == <<207>>
H_Ext1 == <<208>>
H_Ext2 == <<209>>
H_Unknown == <<210>>

\* the trie of branch_immediate_added: keys 0x00 and 0x14, both "bar"
L1 == Leaf(<<0>>, Bar)
L2 == Leaf(<<4>>, Bar)
L3 == Leaf(<<0>>, Foo)
KidsOld == ChildrenOf(0 :> H_L1 @@ 1 :> H_L2)
KidsChg == ChildrenOf(0 :> H_L3 @@ 1 :> H_L2)
KidsMore == ChildrenOf(0 :> H_L1 @@ 1 :> H_L2 @@ 15 :> H_L3)
BrOld == Branch(KidsOld, None)
BrNew == Branch(KidsOld, Some(Baz))
BrChg == Branch(KidsChg, None)
BrMore == Branch(KidsMore, None)
Ext1 == Extension(<<1>>, H_BrOld)
Ext2 == Extension(<<1>>, H_BrChg)

FullStore ==
    H_Empty :> Encoded(Empty) @@ H_L1 :> Encoded(L1) @@ H_L2 :> Encoded(L2)
    @@ H_L3 :> Encoded(L3) @@ H_BrOld :> Encoded(BrOld) @@ H_BrNew :> Encoded(BrNew)
    @@ H_BrChg :> Encoded(BrChg) @@ H_BrMore :> Encoded(BrMore)
    @@ H_Ext1 :> Encoded(Ext1) @@ H_Ext2 :> Encoded(Ext2)

Without(store, h) == [x \in DOMAIN store \ {h} |-> store[x]]
Corrupted(store, h) == [x \in DOMAIN store |-> IF x = h THEN Junk ELSE store[x]]

Stores ==
    {FullStore, Without(FullStore, H_BrNew), Corrupted(FullStore, H_BrNew),
     Without(FullStore, H_L3), [x \in {} |-> Junk]}

Roots == DOMAIN FullStore \cup {H_Unknown}

(***************************************************************************)
(* lib.rs: merkle_diff.  out is the outcome, reads the store lookups made. *)
(***************************************************************************)
\* a plausible slip: the list collected without the is_empty filter
collect_unfiltered(diffs) == diffs

\* .into_iter().filter(|n: &NodeDiffOwned| !n.is_empty()).collect()
filter_non_empty(diffs) == SelectSeq(diffs, LAMBDA n : ~is_empty(n))

merkle_diff(store, old_root, new_root) ==
    LET old_root_value == Get(store, old_root)
        new_root_value == Get(store, new_root)
    IN
    IF IsNone(old_root_value) THEN [out |-> Panic, reads |-> <<old_root>>]
    ELSE IF IsNone(Decode(old_root_value[1])) THEN [out |-> Panic, reads |-> <<old_root>>]
    ELSE IF IsNone(new_root_value) THEN [out |-> Panic, reads |-> <<old_root, new_root>>]
    ELSE IF IsNone(Decode(new_root_value[1]))
         THEN [out |-> Panic, reads |-> <<old_root, new_root>>]
    ELSE LET diff == diff_nodes(<<>>, Decode(old_root_value[1])[1],
                                Decode(new_root_value[1])[1])
         IN  IF diff.status = "panic"
             THEN [out |-> Panic, reads |-> <<old_root, new_root>>]
             ELSE [out |-> Ok(filter_non_empty(<<NodeDiffOwnedFrom(diff.val)>>)),
                   reads |-> <<old_root, new_root>>]


(***************************************************************************)
(* encoding.rs.  A string is a sequence of characters; a character is a    *)
(* one-letter TLA+ string, except "e-acute", which stands for a character  *)
(* whose UTF-8 encoding takes two bytes.  A JSON object is the sequence of *)
(* its <<name, string>> fields as they appear in the text.                 *)
(***************************************************************************)
HexDigits == <<"0", "1", "2", "3", "4", "5", "6", "7", "8", "9", "a", "b", "c", "d", "e", "f">>
UpperHexDigits == <<"A", "B", "C", "D", "E", "F">>

\* rustc_hex::ToHex: two lowercase digits per byte
RECURSIVE ToHex(_)
ToHex(bytes) ==
    IF bytes = <<>> THEN <<>>
    ELSE <<HexDigits[(Head(bytes) \div 16) + 1], HexDigits[(Head(bytes) % 16) + 1]>>
         \o ToHex(Tail(bytes))

HexValue(c) ==
    IF \E i \in 1..16 : HexDigits[i] = c
    THEN Some((CHOOSE i \in 1..16 : HexDigits[i] = c) - 1)
    ELSE IF \E i \in 1..6 : UpperHexDigits[i] = c
    THEN Some((CHOOSE i \in 1..6 : UpperHexDigits[i] = c) + 9)
    ELSE None

\* rustc_hex::FromHex: fails on a character that is no hex digit and on an
\* odd number of digits
RECURSIVE FromHex(_)
FromHex(s) ==
    IF s = <<>> THEN Ok(<<>>)
    ELSE IF IsNone(HexValue(s[1])) THEN Err("custom")
    ELSE IF Len(s) = 1 THEN Err("custom")
    ELSE IF IsNone(HexValue(s[2])) THEN Err("custom")
    ELSE LET rest == FromHex(Tail(Tail(s)))
         IN  IF rest.status = "ok"
             THEN Ok(<<16 * HexValue(s[1])[1] + HexValue(s[2])[1]>> \o rest.val)
             ELSE rest

Utf8Len(c) == IF c = "e-acute" THEN 2 ELSE 1

RECURSIVE ByteLen(_)
ByteLen(s) == IF s = <<>> THEN 0 ELSE Utf8Len(Head(s)) + ByteLen(Tail(s))

\* the character counts k whose first k characters take exactly n bytes:
\* empty when byte index n is past the end or inside a character
CharsAt(s, n) == {k \in 0..Len(s) : ByteLen(SubSeq(s, 1, k)) = n}

\* impl SerializePrefixedFormat for Vec<u8>
SerializeVecU8(bytes) == <<"0", "x">> \o ToHex(bytes)

\* impl SerializePrefixedFormat for EntryOwned
SerializeEntryOwned(e) ==
    <<<<"key", SerializeVecU8(e.key)>>, <<"value", SerializeVecU8(e.value)>>>>

\* StringVisitor::visit_str of impl DeserializePrefixedFormat for Vec<u8>;
\* &s[0..2] and &s[2..] panic unless byte index 2 is in range and on a
\* character boundary
DeserializeVecU8(s) ==
    IF CharsAt(s, 2) = {} THEN Panic
    ELSE LET k == CHOOSE k \in CharsAt(s, 2) : TRUE
         IN  IF SubSeq(s, 1, k) # <<"0", "x">> THEN Err("invalid_value")
             ELSE FromHex(SubSeq(s, k + 1, Len(s)))

\* StructVisitor::visit_map of impl DeserializePrefixedFormat for EntryOwned
RECURSIVE VisitMap(_, _, _)
VisitMap(fields, val_key, val_value) ==
    IF fields = <<>>
    THEN IF IsNone(val_key) THEN Err("missing_field key")
         ELSE IF IsNone(val_value) THEN Err("missing_field value")
         ELSE Ok([key |-> val_key[1], value |-> val_value[1]])
    ELSE LET name == fields[1][1]
             inner_val == DeserializeVecU8(fields[1][2])
         IN  IF name = "key"
             THEN IF IsSome(val_key) THEN Err("duplicate_field key")
                  ELSE IF inner_val.status # "ok" THEN inner_val
                  ELSE VisitMap(Tail(fields),
                                Some(NibbleOwnedFrom(NibbleSliceNew(inner_val.val))),
                                val_value)
             ELSE IF name = "value"
             THEN IF IsSome(val_value) THEN Err("duplicate_field value")
                  ELSE IF inner_val.status # "ok" THEN inner_val
                  ELSE VisitMap(Tail(fields), val_key, Some(inner_val.val))
             ELSE Err("unknown_field")

DeserializeEntryOwned(json) == VisitMap(json, None, None)

(***************************************************************************)
(* Inputs.                                                                 *)
(***************************************************************************)
PathNibbles == {0, 4}
Prefixes == SeqUpTo(PathNibbles, MaxPrefixLen)
Partials == SeqUpTo(PathNibbles, MaxPartialLen)

Nodes ==
    {Empty}
    \cup {Leaf(p, d) : p \in Partials, d \in {Bar, Foo}}
    \cup {Extension(p, h) : p \in Partials \ {<<>>}, h \in {H_BrOld, H_BrChg}}
    \cup {Branch(c, v) : c \in {KidsOld, KidsChg, KidsMore},
                         v \in {None, Some(Bar), Some(Baz)}}

KeyNibbles == {0, 1, 10, 15}
ValueBytes == {0, 15, 16, 98}
EntriesOwned ==
    {[key |-> k, value |-> v] : k \in SeqUpTo(KeyNibbles, MaxKeyLen),
                                v \in SeqUpTo(ValueBytes, MaxKeyLen)}

InputChars == {"0", "x", "a", "F", "g", "e-acute"}
InputStrings == SeqUpTo(InputChars, MaxStrLen)

FieldNames == {"key", "value", "extra"}
FieldStrings == {<<"0", "x">>, <<"0", "x", "0", "a">>, <<"0", "a">>, <<"0">>, <<"0", "x", "6">>}
JsonObjects == SeqUpTo(FieldNames \X FieldStrings, MaxFields)

Pending == [status |-> "pending"]

(***************************************************************************)
(* The state machine: Init draws the store and the call, one action per    *)
(* public operation carries the call out.                                  *)
(***************************************************************************)
Init ==
    /\ ret = Pending
    /\ lookups = <<>>
    /\ wire = None
    /\ \/ /\ db \in Stores
          /\ call \in {[op |-> "merkle_diff", old_root |-> o, new_root |-> n] :
                         o \in Roots, n \in Roots}
       \/ /\ db = FullStore
          /\ call \in {[op |-> "diff_nodes", nibble |-> p, old_node |-> o, new_node |-> n] :
                         p \in Prefixes, o \in Nodes, n \in Nodes}
       \/ /\ db = FullStore
          /\ call \in {[op |-> "serialize_entry", entry |-> e] : e \in EntriesOwned}
       \/ /\ db = FullStore
          /\ call \in {[op |-> "deserialize_vec_u8", s |-> s] : s \in InputStrings}
       \/ /\ db = FullStore
          /\ call \in {[op |-> "deserialize_entry", json |-> j, sent |-> None] :
                         j \in JsonObjects}

MerkleDiff ==
    /\ call.op = "merkle_diff" /\ ret = Pending
    /\ LET r == merkle_diff(db, call.old_root, call.new_root)
       IN  ret' = r.out /\ lookups' = r.reads
    /\ UNCHANGED <<db, call, wire>>

DiffNodes ==
    /\ call.op = "diff_nodes" /\ ret = Pending
    /\ ret' = diff_nodes(call.nibble, call.old_node, call.new_node)
    /\ UNCHANGED <<db, call, lookups, wire>>

SerializeEntry ==
    /\ call.op = "serialize_entry" /\ ret = Pending
    /\ ret' = Ok(SerializeEntryOwned(call.entry))
    /\ wire' = Some(SerializeEntryOwned(call.entry))
    /\ UNCHANGED <<db, call, lookups>>

DeserializeVec ==
    /\ call.op = "deserialize_vec_u8" /\ ret = Pending
    /\ ret' = DeserializeVecU8(call.s)
    /\ UNCHANGED <<db, call, lookups, wire>>

\* the deserializer reads either a JSON text of the host or the text the
\* serializer has just written
DeserializeEntry ==
    \/ /\ call.op = "deserialize_entry" /\ ret = Pending
       /\ ret' = DeserializeEntryOwned(call.json)
       /\ UNCHANGED <<db, call, lookups, wire>>
    \/ /\ call.op = "serialize_entry" /\ IsSome(wire)
       /\ call' = [op |-> "deserialize_entry", json |-> wire[1], sent |-> Some(call.entry)]
       /\ ret' = DeserializeEntryOwned(wire[1])
       /\ wire' = None
       /\ UNCHANGED <<db, lookups>>

Next == MerkleDiff \/ DiffNodes \/ SerializeEntry \/ DeserializeVec \/ DeserializeEntry

Spec == Init /\ [][Next]_vars


(***************************************************************************)
(* The intended behaviour the claims refer to: the enumeration of the leaf *)
(* facts beneath a node and the recursive comparison of two nodes, both    *)
(* resolving child references through the store.                           *)
(***************************************************************************)
ToSet(seq) == {seq[i] : i \in 1..Len(seq)}

Resolve(store, hash) == Decode(store[hash])[1]

PresentSlots(node) == {i \in Slots : IsSome(node[2][i])}

\* the (full key, value) facts reachable beneath node, placed at prefix
RECURSIVE Facts(_, _, _)
Facts(store, prefix, node) ==
    CASE Kind(node) = "Empty" -> {}
      [] Kind(node) = "Leaf" -> {Entry(prefix \o node[2], node[3])}
      [] Kind(node) = "Extension" ->
            Facts(store, prefix \o node[2], Resolve(store, node[3]))
      [] Kind(node) = "Branch" ->
            UNION {Facts(store, prefix \o <<i - 1>>, Resolve(store, node[2][i][1])) :
                     i \in PresentSlots(node)}
            \cup (IF IsSome(node[3]) THEN {Entry(prefix, node[3][1])} ELSE {})

\* the comparison of two decoded nodes, as sets of added and removed facts,
\* and what child slot i (tuple index) of two Branch nodes contributes to it
RECURSIVE Compare(_, _, _, _), SlotChanges(_, _, _, _, _)
SlotChanges(store, prefix, old, new, i) ==
    IF old[2][i] = new[2][i] THEN [added |-> {}, removed |-> {}]
    ELSE IF IsSome(old[2][i]) /\ IsSome(new[2][i])
    THEN Compare(store, prefix \o <<i - 1>>,
                 Resolve(store, old[2][i][1]), Resolve(store, new[2][i][1]))
    ELSE IF IsSome(new[2][i])
    THEN [added |-> Facts(store, prefix \o <<i - 1>>, Resolve(store, new[2][i][1])),
          removed |-> {}]
    ELSE [added |-> {},
          removed |-> Facts(store, prefix \o <<i - 1>>, Resolve(store, old[2][i][1]))]

Compare(store, prefix, old, new) ==
    IF old = new THEN [added |-> {}, removed |-> {}]
    ELSE IF Kind(old) = "Branch" /\ Kind(new) = "Branch"
    THEN LET inline == old[3] # new[3]
         IN  [added |->
                  UNION {SlotChanges(store, prefix, old, new, i).added : i \in Slots}
                  \cup (IF inline /\ IsSome(new[3]) THEN {Entry(prefix, new[3][1])} ELSE {}),
              removed |->
                  UNION {SlotChanges(store, prefix, old, new, i).removed : i \in Slots}
                  \cup (IF inline /\ IsSome(old[3]) THEN {Entry(prefix, old[3][1])} ELSE {})]
    ELSE [added |-> Facts(store, prefix, new), removed |-> Facts(store, prefix, old)]

Resolvable(store, hash) == hash \in DOMAIN store /\ IsSome(Decode(store[hash]))

Returned == ret # Pending

DiffNodesReturned == call.op = "diff_nodes" /\ Returned

MerkleDiffReturned == call.op = "merkle_diff" /\ Returned

(***************************************************************************)
(* Claims.                                                                 *)
(***************************************************************************)

\* C1: merkle_diff(db, R, R) returns an empty list for every root hash R,
\* reads nothing from the store, and so succeeds even when R is not in the
\* store.
C1_IdentityWithoutLookup ==
    (MerkleDiffReturned /\ call.old_root = call.new_root)
        => (ret.status = "ok" /\ ret.val = <<>> /\ lookups = <<>>)

\* C2: deserializing the serialization of an entry yields that entry, for
\* every key and value.
C2_RoundTrip ==
    (call.op = "deserialize_entry" /\ Returned /\ IsSome(call.sent))
        => (ret.status = "ok" /\ ret.val = call.sent[1])

\* C3: with old = Empty the diff has nothing removed and its added entries
\* are exactly the leaf facts reachable beneath new; with new = Empty the
\* facts beneath old are exactly the removed entries.
C3_FullEnumeration ==
    DiffNodesReturned =>
        /\ call.old_node = Empty =>
              /\ ret.status = "ok"
              /\ ret.val.removed_entries = <<>>
              /\ ToSet(ret.val.added_entries) = Facts(db, call.nibble, call.new_node)
              /\ Len(ret.val.added_entries)
                     = Cardinality(Facts(db, call.nibble, call.new_node))
        /\ call.new_node = Empty =>
              /\ ret.status = "ok"
              /\ ret.val.added_entries = <<>>
              /\ ToSet(ret.val.removed_entries) = Facts(db, call.nibble, call.old_node)
              /\ Len(ret.val.removed_entries)
                     = Cardinality(Facts(db, call.nibble, call.old_node))

\* C4: diff_nodes returns a Diff, and that Diff is empty exactly when the
\* two nodes are structurally equal; merkle_diff of two resolvable roots
\* returns an empty list exactly when the two root nodes are equal.
C4_EmptyIffEqual ==
    /\ DiffNodesReturned =>
          /\ ret.status = "ok"
          /\ is_empty(ret.val) <=> (call.old_node = call.new_node)
    /\ (MerkleDiffReturned
        /\ Resolvable(db, call.old_root) /\ Resolvable(db, call.new_root)) =>
          /\ ret.status = "ok"
          /\ (ret.val = <<>>) <=> (Resolve(db, call.old_root) = Resolve(db, call.new_root))

SameSlotsInlineAdded(old, new) ==
    /\ Kind(old) = "Branch" /\ Kind(new) = "Branch"
    /\ old[2] = new[2]
    /\ IsNone(old[3]) /\ IsSome(new[3])

\* C5: two Branch nodes with the same child slots, old without an inline
\* value and new with inline value v, give at prefix p exactly
\* added = [{p, v}] and removed = []; merkle_diff of two such roots returns
\* one Diff whose only entry is the added {empty path, v}.
C5_BranchInlineAdded ==
    /\ (DiffNodesReturned /\ SameSlotsInlineAdded(call.old_node, call.new_node)) =>
          /\ ret.status = "ok"
          /\ ret.val.added_entries = <<[key |-> call.nibble, value |-> call.new_node[3][1]]>>
          /\ ret.val.removed_entries = <<>>
    /\ (/\ MerkleDiffReturned
        /\ Resolvable(db, call.old_root) /\ Resolvable(db, call.new_root)
        /\ SameSlotsInlineAdded(Resolve(db, call.old_root), Resolve(db, call.new_root))) =>
          /\ ret.status = "ok"
          /\ ret.val = <<[added_entries |->
                             <<[key |-> <<>>, value |-> Resolve(db, call.new_root)[3][1]]>>,
                          removed_entries |-> <<>>]>>

C5_Witness ==
    /\ MerkleDiffReturned
    /\ call.old_root = H_BrOld /\ call.new_root = H_BrNew
    /\ ret.status = "ok"
    /\ Len(ret.val) = 1
    /\ ret.val[1].added_entries = <<[key |-> <<>>, value |-> Baz]>>

\* C6: diff_nodes returns a Diff for every pair of node shapes.
C6_Totality == DiffNodesReturned => ret.status = "ok"

\* C7: two structurally different Leaf nodes Leaf(po, do) and Leaf(pn, dn)
\* at prefix p give exactly removed = [{p ++ po, do}] and
\* added = [{p ++ pn, dn}]; with po = pn both entries carry the same key.
C7_LeafVersusLeaf ==
    (/\ DiffNodesReturned
     /\ Kind(call.old_node) = "Leaf" /\ Kind(call.new_node) = "Leaf"
     /\ call.old_node # call.new_node) =>
        /\ ret.status = "ok"
        /\ ret.val.removed_entries
              = <<[key |-> call.nibble \o call.old_node[2], value |-> call.old_node[3]]>>
        /\ ret.val.added_entries
              = <<[key |-> call.nibble \o call.new_node[2], value |-> call.new_node[3]]>>
        /\ call.old_node[2] = call.new_node[2] =>
              /\ ret.val.removed_entries[1].key = ret.val.added_entries[1].key
              /\ ret.val.removed_entries[1].value # ret.val.added_entries[1].value

C7_Witness ==
    /\ DiffNodesReturned
    /\ call.nibble = <<4>>
    /\ call.old_node = Leaf(<<0>>, Foo) /\ call.new_node = Leaf(<<4>>, Bar)
    /\ ret.status = "ok"
    /\ ret.val.removed_entries = <<[key |-> <<4, 0>>, value |-> Foo]>>
    /\ ret.val.added_entries = <<[key |-> <<4, 4>>, value |-> Bar]>>

HasPrefix0x(s) == Len(s) >= 2 /\ s[1] = "0" /\ s[2] = "x"

\* C8: deserializing a string that does not begin with the two characters
\* 0x returns an "invalid value" error, the empty string and one-character
\* strings included, and never aborts; an Entry object whose first field
\* is a key or value with such a string fails with an error.
C8_StrictPrefix ==
    /\ (call.op = "deserialize_vec_u8" /\ Returned /\ ~HasPrefix0x(call.s))
          => ret = Err("invalid_value")
    /\ (/\ call.op = "deserialize_entry" /\ Returned
        /\ call.json # <<>>
        /\ call.json[1][1] \in {"key", "value"}
        /\ ~HasPrefix0x(call.json[1][2]))
          => ret = Err("invalid_value")

BothBranch == Kind(call.old_node) = "Branch" /\ Kind(call.new_node) = "Branch"

\* C9: for two Branch nodes the Diff contains, for every child slot that
\* differs, the changes beneath that slot (the comparison of the two
\* children, or the enumeration of the one-sided child), whatever the
\* inline values are.
C9_BranchChildSlots ==
    (DiffNodesReturned /\ BothBranch) =>
        /\ ret.status = "ok"
        /\ \A i \in Slots :
              LET slot == SlotChanges(db, call.nibble, call.old_node, call.new_node, i)
              IN  /\ slot.added \subseteq ToSet(ret.val.added_entries)
                  /\ slot.removed \subseteq ToSet(ret.val.removed_entries)

InvolvesExtension ==
    /\ Kind(call.old_node) \in SimpleKinds /\ Kind(call.new_node) \in SimpleKinds
    /\ "Extension" \in {Kind(call.old_node), Kind(call.new_node)}
    /\ call.old_node # call.new_node

\* C10: for two different nodes of which at least one is an Extension (the
\* other a Leaf or an Extension), removed is the enumeration of the leaf
\* facts beneath old and added the enumeration of the leaf facts beneath
\* new; no entry carries a child hash as its value.
C10_ExtensionPairs ==
    (DiffNodesReturned /\ InvolvesExtension) =>
        /\ ret.status = "ok"
        /\ ToSet(ret.val.removed_entries) = Facts(db, call.nibble, call.old_node)
        /\ ToSet(ret.val.added_entries) = Facts(db, call.nibble, call.new_node)
        /\ \A e \in ToSet(ret.val.removed_entries) \cup ToSet(ret.val.added_entries) :
              e.value \notin DOMAIN FullStore

\* C11: whenever merkle_diff returns, the returned list holds at most one
\* Diff and no empty Diff, and it is empty exactly when the comparison of
\* the two root nodes gave an empty Diff.
C11_EmptyDiffsFiltered ==
    (MerkleDiffReturned /\ ret.status = "ok") =>
        LET compared == diff_nodes(<<>>, Resolve(db, call.old_root),
                                   Resolve(db, call.new_root))
        IN  /\ Len(ret.val) <= 1
            /\ \A i \in 1..Len(ret.val) :
                  ret.val[i].added_entries # <<>> \/ ret.val[i].removed_entries # <<>>
            /\ compared.status = "ok"
            /\ (ret.val = <<>>) <=> (/\ compared.val.added_entries = <<>>
                                     /\ compared.val.removed_entries = <<>>)

\* the comparison of a root with itself gave an empty Diff and the list
\* returned is empty
C11_Witness ==
    /\ MerkleDiffReturned
    /\ call.old_root = H_BrNew /\ call.new_root = H_BrNew
    /\ ret.status = "ok"
    /\ ret.val = <<>>
    /\ diff_nodes(<<>>, Resolve(db, H_BrNew), Resolve(db, H_BrNew)) = Ok(NodeDiffDefault)

====
